---- MODULE Spec2Model ----
(***************************************************************************)
(* A model of the NASA MODIS/VIIRS web-service client                      *)
(* (nasawebservice.dataprovider.provider.NasaWebServiceAPIProvider and     *)
(* nasawebservice.utils.utils).                                            *)
(*                                                                         *)
(* Python strings are sequences of one-character strings, so that          *)
(* int(...) and f'A{...}' are computed and not assumed to be inverse.      *)
(* A composite date is "A" followed by seven digits.                       *)
(***************************************************************************)
EXTENDS Integers, Sequences, FiniteSets, TLC

(***************************************************************************)
(* Bounds of the model.                                                    *)
(***************************************************************************)
\* longest date list handed to the pure functions of utils.py
MaxLen == 3
\* longest date list the upstream service answers a dates request with
MaxDates == 3
\* longest product list the upstream service answers a products request with
MaxProducts == 2

(***************************************************************************)
(* Strings, int() and str().                                               *)
(***************************************************************************)
DigitChars == <<"0", "1", "2", "3", "4", "5", "6", "7", "8", "9">>

\* the value of a digit character
DigitVal(c) == (CHOOSE i \in 1..10 : DigitChars[i] = c) - 1

\* str.replace('A', ''): drops every "A"
replace_A(s) == SelectSeq(s, LAMBDA c : c # "A")

\* int(s) for a string of decimal digits
RECURSIVE int(_)
int(s) == IF s = <<>> THEN 0
          ELSE 10 * int(SubSeq(s, 1, Len(s) - 1)) + DigitVal(s[Len(s)])

\* str(n), as in an f-string: the shortest decimal numeral of n >= 0
RECURSIVE str(_)
str(n) == IF n < 10 THEN <<DigitChars[n + 1]>>
          ELSE str(n \div 10) \o <<DigitChars[(n % 10) + 1]>>

\* the composite date string with the given seven digits
CompositeDate(d1, d2, d3, d4, d5, d6, d7) ==
    <<"A", DigitChars[d1 + 1], DigitChars[d2 + 1], DigitChars[d3 + 1],
      DigitChars[d4 + 1], DigitChars[d5 + 1], DigitChars[d6 + 1], DigitChars[d7 + 1]>>

\* numeric(d): the number a composite date stands for
Numeric(d) == int(replace_A(d))

abs(x) == IF x < 0 THEN -x ELSE x

(***************************************************************************)
(* Outcomes of a call: a value, or an exception that escapes.              *)
(***************************************************************************)
Value(v) == [exc |-> "none", why |-> "", val |-> v]
Raise(e, w) == [exc |-> e, why |-> w, val |-> <<>>]

(***************************************************************************)
(* utils.py                                                                *)
(***************************************************************************)
\* min(items, key): the first element, in iteration order, with the least key
MinByKey(items, pivot) ==
    LET best == CHOOSE i \in 1..Len(items) :
                   /\ \A j \in 1..Len(items) :
                         abs(items[i] - pivot) <= abs(items[j] - pivot)
                   /\ \A j \in 1..(i - 1) :
                         abs(items[j] - pivot) > abs(items[i] - pivot)
    IN  items[best]

\* the string built from the closest number: f'A{closest}'
FormatClosest(closest) == <<"A">> \o str(closest)

find_closest_composite_date(items, pivot) ==
    LET p == int(replace_A(pivot))
        ints == [i \in 1..Len(items) |-> int(replace_A(items[i]))]
    IN  IF ints = <<>> THEN Raise("ValueError", "min() arg is an empty sequence")
        ELSE Value(FormatClosest(MinByKey(ints, p)))

\* list.index(x): the first (1-based here) position of x, 0 when absent
Index(list, x) ==
    IF \E i \in 1..Len(list) : list[i] = x
    THEN CHOOSE i \in 1..Len(list) : list[i] = x /\ \A j \in 1..(i - 1) : list[j] # x
    ELSE 0

\* the guard with the difference taken the other way round
RangeInvertedOtherWay(start_date, end_date) ==
    int(replace_A(end_date)) - int(replace_A(start_date)) > 0

\* the guard of compute_date_interval, on the raw arguments
RangeInverted(start_date, end_date) ==
    int(replace_A(start_date)) - int(replace_A(end_date)) > 0

\* compute_date_interval that compares the dates after snapping them
compute_date_interval_snapped(all_dates, start_date, end_date) ==
    LET start_closest_date == find_closest_composite_date(all_dates, start_date)
        end_closest_date == find_closest_composite_date(all_dates, end_date)
    IN  IF start_closest_date.exc # "none" THEN start_closest_date
        ELSE IF RangeInverted(start_closest_date.val, end_closest_date.val)
        THEN Raise("ValueError", "End date is not greater than start date")
        ELSE LET index_start == Index(all_dates, start_closest_date.val)
                 index_end == Index(all_dates, end_closest_date.val)
             IN  IF index_start = 0 \/ index_end = 0
                 THEN Raise("ValueError", "is not in list")
                 ELSE Value(SubSeq(all_dates, index_start, index_end))

\* The body of the generator compute_date_interval up to its loop: the list
\* dates_range it goes on to yield, or the exception raised instead.
compute_date_interval(all_dates, start_date, end_date) ==
    IF RangeInverted(start_date, end_date)
    THEN Raise("ValueError", "End date is not greater than start date")
    ELSE LET start_closest_date == find_closest_composite_date(all_dates, start_date)
             end_closest_date == find_closest_composite_date(all_dates, end_date)
         IN  IF start_closest_date.exc # "none" THEN start_closest_date
             ELSE LET index_start == Index(all_dates, start_closest_date.val)
                      index_end == Index(all_dates, end_closest_date.val)
                  IN  IF index_start = 0 \/ index_end = 0
                      THEN Raise("ValueError", "is not in list")
                      ELSE Value(SubSeq(all_dates, index_start, index_end))

(***************************************************************************)
(* HTTP as the client sees it.  One attempt either obtains a response      *)
(* (status, reason phrase, body, Date header) or ends in an exception of   *)
(* the HTTP library.  The resolved URL of a response is the URL asked for. *)
(***************************************************************************)
\* a URL is the list of the parts that vary: the endpoint and the dates
EmptyString == <<>>
ProductsUrl == <<"products">>
BandsUrl == <<"bands">>
DatesUrl == <<"dates">>
SubsetUrl(startDate, endDate) == <<"subset", startDate, endDate>>

None == <<"None">>

\* a body and what json() makes of it: a dict, a str, another JSON value, or
\* no JSON at all; text is the raw body
Body(json, value, text) == [json |-> json, value |-> value, text |-> text]
NoBody == Body("invalid", <<>>, <<>>)

HttpResponse(status, reason, body, date) ==
    [kind |-> "response", status |-> status, reason |-> reason, body |-> body,
     date |-> date, exc |-> "", request |-> FALSE]

\* an exception of the library; request tells whether it carries the request
HttpException(exc, request) ==
    [kind |-> "exception", status |-> 0, reason |-> "", body |-> NoBody,
     date |-> "", exc |-> exc, request |-> request]

\* Response.ok: raise_for_status() would not raise
ok(response) == ~(400 <= response.status /\ response.status < 600)

\* dict.get(key)
Get(dict, key) == IF key \in DOMAIN dict THEN dict[key] ELSE None

\* 'status' in mapping
HasStatus(mapping) == "status" \in DOMAIN mapping

\* str.rstrip("\n")
RECURSIVE rstrip_newline(_)
rstrip_newline(text) ==
    IF text # <<>> /\ text[Len(text)] = "\n"
    THEN rstrip_newline(SubSeq(text, 1, Len(text) - 1))
    ELSE text

\* str.replace('"', '')
replace_quote(text) == SelectSeq(text, LAMBDA c : c # "\"")

(***************************************************************************)
(* The requests library's exception classes.                               *)
(***************************************************************************)
IsHTTPError(exc) == exc \in {"HTTPError"}
IsConnectionError(exc) == exc \in {"ConnectionError", "ConnectTimeout", "SSLError"}
IsTimeout(exc) == exc \in {"ReadTimeout", "ConnectTimeout"}

(***************************************************************************)
(* provider.py: the sequential request path.                               *)
(***************************************************************************)
ErrorMapping(status, title, url, detail) ==
    [status |-> status, title |-> title, url |-> url, detail |-> detail]

\* response.json() of a body that is no JSON raises; nothing catches it in a
\* handler, and where _response catches it (as a RequestException, in the
\* library versions that make it one) the handler fails on its missing request
JsonFailure == Raise("JSONDecodeError", "response.json()")

response_fault_handling(response, url) ==
    IF response.body.json = "invalid" THEN JsonFailure
    ELSE Value(ErrorMapping(
            response.status, response.reason, url,
            IF response.body.json = "dict" THEN Get(response.body.value, "detail")
            ELSE IF response.body.json = "str"
                 THEN replace_quote(rstrip_newline(response.body.text))
                 ELSE <<"something wrong">>))

\* error_obj.request.url fails when the exception carries no request
error_fault_handling(error_obj, url, status_code, title) ==
    IF ~error_obj.request
    THEN Raise("AttributeError", "'NoneType' object has no attribute 'url'")
    ELSE Value(ErrorMapping(status_code, title, url, <<"Exception for", url>>))

\* what the try statement of _response leaves in response_result
response_result(query, o) ==
    IF o.kind = "response"
    THEN IF ok(o)
         THEN IF o.body.json = "invalid" THEN JsonFailure ELSE Value(o.body.value)
         ELSE response_fault_handling(o, query)
    ELSE IF IsHTTPError(o.exc) THEN error_fault_handling(o, query, 400, "HTTP ERROR")
    ELSE IF IsConnectionError(o.exc)
         THEN error_fault_handling(o, query, 777, "CONNECTION ERROR")
    ELSE IF IsTimeout(o.exc) THEN error_fault_handling(o, query, 777, "TIMEOUT ERROR")
    ELSE error_fault_handling(o, query, 777, "AMBIGUOUS ERROR")

\* the last-request time after _response(query) met outcome o
response_time(query, o) == IF o.kind = "response" THEN o.date ELSE ""

\* the last-request URL after _response(query) met outcome o
response_url(query, o) == IF o.kind = "response" THEN query ELSE EmptyString

\* _response(query) when the attempt ends as o: the fields it leaves and
\* what it returns or raises
response(query, o) ==
    [requests_time |-> response_time(query, o),
     requests_url |-> response_url(query, o),
     result |-> response_result(query, o)]

get_request_http_time(time) ==
    IF time = "" THEN Raise("NameError", "The HTML header time is not found")
    ELSE Value(time)

get_request_url(url) ==
    IF url = EmptyString THEN Raise("NameError", "The URL is not found")
    ELSE Value(url)

\* a lookup that misses every key and gives the default
aiohttp_handler_exception_default(status_code) == <<"Unknown status code">>

\* the label of an HTTP status code, by the switcher table
aiohttp_handler_exception(status_code) ==
    CASE status_code = 200 -> <<"HTTPOk">>
      [] status_code = 201 -> <<"HTTPCreated">>
      [] status_code = 202 -> <<"HTTPAccepted">>
      [] status_code = 203 -> <<"HTTPNonAuthoritativeInformation">>
      [] status_code = 204 -> <<"HTTPNoContent">>
      [] status_code = 205 -> <<"HTTPResetContent">>
      [] status_code = 206 -> <<"HTTPPartialContent">>
      [] status_code = 304 -> <<"HTTPNotModified">>
      [] status_code = 300 -> <<"HTTPMultipleChoices">>
      [] status_code = 301 -> <<"HTTPMovedPermanently">>
      [] status_code = 302 -> <<"HTTPFound">>
      [] status_code = 303 -> <<"HTTPSeeOther">>
      [] status_code = 305 -> <<"HTTPUseProxy">>
      [] status_code = 307 -> <<"HTTPTemporaryRedirect">>
      [] status_code = 308 -> <<"HTTPPermanentRedirect">>
      [] status_code = 400 -> <<"HTTPBadRequest">>
      [] status_code = 401 -> <<"HTTPUnauthorized">>
      [] status_code = 402 -> <<"HTTPPaymentRequired">>
      [] status_code = 403 -> <<"HTTPForbidden">>
      [] status_code = 404 -> <<"HTTPNotFound">>
      [] status_code = 405 -> <<"HTTPMethodNotAllowed">>
      [] status_code = 406 -> <<"HTTPNotAcceptable">>
      [] status_code = 407 -> <<"HTTPProxyAuthenticationRequired">>
      [] status_code = 408 -> <<"HTTPRequestTimeout">>
      [] status_code = 409 -> <<"HTTPConflict">>
      [] status_code = 410 -> <<"HTTPGone">>
      [] status_code = 411 -> <<"HTTPLengthRequired">>
      [] status_code = 412 -> <<"HTTPPreconditionFailed">>
      [] status_code = 413 -> <<"HTTPRequestEntityTooLarge">>
      [] status_code = 414 -> <<"HTTPRequestURITooLong">>
      [] status_code = 415 -> <<"HTTPUnsupportedMediaType">>
      [] status_code = 416 -> <<"HTTPRequestRangeNotSatisfiable">>
      [] status_code = 417 -> <<"HTTPExpectationFailed">>
      [] status_code = 421 -> <<"HTTPMisdirectedRequest">>
      [] status_code = 422 -> <<"HTTPUnprocessableEntity">>
      [] status_code = 424 -> <<"HTTPFailedDependency">>
      [] status_code = 426 -> <<"HTTPUpgradeRequired">>
      [] status_code = 428 -> <<"HTTPPreconditionRequired">>
      [] status_code = 429 -> <<"HTTPTooManyRequests">>
      [] status_code = 431 -> <<"HTTPRequestHeaderFieldsTooLarge">>
      [] status_code = 451 -> <<"HTTPUnavailableForLegalReasons">>
      [] status_code = 500 -> <<"HTTPInternalServerError">>
      [] status_code = 501 -> <<"HTTPNotImplemented">>
      [] status_code = 502 -> <<"HTTPBadGateway">>
      [] status_code = 503 -> <<"HTTPServiceUnavailable">>
      [] status_code = 504 -> <<"HTTPGatewayTimeout">>
      [] status_code = 505 -> <<"HTTPVersionNotSupported">>
      [] status_code = 506 -> <<"HTTPVariantAlsoNegotiates">>
      [] status_code = 507 -> <<"HTTPInsufficientStorage">>
      [] status_code = 510 -> <<"HTTPNotExtended">>
      [] status_code = 511 -> <<"HTTPNetworkAuthenticationRequired">>
      [] OTHER -> <<"Unknown status code">>

(***************************************************************************)
(* provider.py: the concurrent request path (aiohttp).                     *)
(***************************************************************************)
\* aiohttp's ClientResponse.ok
async_ok(o) == o.status < 400

\* aiohttp's exception classes, as far as the except clauses tell them apart
IsClientConnectorError(exc) == exc \in {"ClientConnectorError"}
IsClientResponseError(exc) == exc \in {"ClientResponseError", "ContentTypeError"}
IsClientPayloadError(exc) == exc \in {"ClientPayloadError"}
IsInvalidURL(exc) == exc \in {"InvalidURL"}

\* an error mapping that names its first key status_code
asynchronous_exception_handling_renamed_key(error_obj, request_url, status_code, title) ==
    [status_code |-> status_code, title |-> title, url |-> request_url,
     detail |-> <<"str", error_obj>>]

asynchronous_exception_handling(error_obj, request_url, status_code, title) ==
    ErrorMapping(status_code, title, request_url, <<"str", error_obj>>)

\* the except clauses of _asynchronous_response: a mapping, or the exception
\* goes on to the awaiting gather
asynchronous_except(exc, request_url) ==
    IF IsClientConnectorError(exc)
    THEN Value(asynchronous_exception_handling(exc, request_url, 777,
                                               "CLIENT CONNECTION ERROR"))
    ELSE IF IsClientResponseError(exc)
    THEN Value(asynchronous_exception_handling(exc, request_url, 777,
                                               "CLIENT RESPONSE ERROR"))
    ELSE IF IsClientPayloadError(exc)
    THEN Value(asynchronous_exception_handling(exc, request_url, 777,
                                               "CLIENT PAYLOAD ERROR"))
    ELSE IF IsInvalidURL(exc)
    THEN Value(asynchronous_exception_handling(exc, request_url, 777, "INVALID URL ERROR"))
    ELSE Raise(exc, "not caught by _asynchronous_response")

\* what _asynchronous_response returns or raises when the attempt ends as o;
\* response.json() of a body that is no JSON raises ContentTypeError
asynchronous_result(request_url, o) ==
    IF o.kind = "response"
    THEN IF async_ok(o)
         THEN IF o.body.json = "invalid"
              THEN asynchronous_except("ContentTypeError", request_url)
              ELSE Value(o.body.value)
         ELSE Value(ErrorMapping(o.status, o.reason, request_url,
                                 aiohttp_handler_exception(o.status)))
    ELSE asynchronous_except(o.exc, request_url)

\* whether _asynchronous_response records the response in the last-request fields
asynchronous_records(o) == o.kind = "response" /\ async_ok(o)

\* chunks that takes the step of the range and leaves the slice open: dates[i:]
chunks_of_open_slice(dates, n) ==
    IF n = 0 THEN Raise("ValueError", "range() arg 3 must not be zero")
    ELSE IF n < 0 \/ dates = <<>> THEN Value(<<>>)
    ELSE Value([k \in 1..((Len(dates) + n - 1) \div n) |->
                   SubSeq(dates, (k - 1) * n + 1, Len(dates))])

\* the chunks generator: dates[i:i + n] for i in range(0, len(dates), n)
chunks_of(dates, n) ==
    IF n = 0 THEN Raise("ValueError", "range() arg 3 must not be zero")
    ELSE IF n < 0 \/ dates = <<>> THEN Value(<<>>)
    ELSE Value([k \in 1..((Len(dates) + n - 1) \div n) |->
                   SubSeq(dates, (k - 1) * n + 1,
                          IF k * n < Len(dates) THEN k * n ELSE Len(dates))])

\* str < str: the order sorted() puts strings in
Ord(c) == IF c = "A" THEN 65 ELSE 48 + DigitVal(c)

RECURSIVE StrLess(_, _)
StrLess(a, b) ==
    IF b = <<>> THEN FALSE
    ELSE IF a = <<>> THEN TRUE
    ELSE IF Ord(Head(a)) # Ord(Head(b)) THEN Ord(Head(a)) < Ord(Head(b))
    ELSE StrLess(Tail(a), Tail(b))

\* sorted(dates, key=lambda x: x.get('modis_date')): a stable insertion sort
RECURSIVE sorted(_)
sorted(dates) ==
    IF dates = <<>> THEN <<>>
    ELSE LET init == sorted(SubSeq(dates, 1, Len(dates) - 1))
             x == dates[Len(dates)]
             k == Cardinality({i \in 1..Len(init) :
                                  ~StrLess(Get(x, "modis_date"), Get(init[i], "modis_date"))})
         IN  SubSeq(init, 1, k) \o <<x>> \o SubSeq(init, k + 1, Len(init))

\* [d.get('modis_date') for d in dates]
modis_dates(dates) == [i \in 1..Len(dates) |-> Get(dates[i], "modis_date")]

(***************************************************************************)
(* parameters.py: the enumeration Products, and str.upper().               *)
(***************************************************************************)
LowerLetters == <<"a", "b", "c", "d", "e", "f", "g", "h", "i", "j", "k", "l", "m",
                  "n", "o", "p", "q", "r", "s", "t", "u", "v", "w", "x", "y", "z">>
UpperLetters == <<"A", "B", "C", "D", "E", "F", "G", "H", "I", "J", "K", "L", "M",
                  "N", "O", "P", "Q", "R", "S", "T", "U", "V", "W", "X", "Y", "Z">>

\* str.upper(): every lower-case letter becomes its capital
upper(s) ==
    [i \in 1..Len(s) |->
        IF \E k \in 1..26 : LowerLetters[k] = s[i]
        THEN UpperLetters[CHOOSE k \in 1..26 : LowerLetters[k] = s[i]]
        ELSE s[i]]

\* a member of an enumeration: NAME = 'value'
Member(name, value) == [name |-> name, value |-> value]

\* the members of the enumeration Products
ProductsEnum ==
    {Member(<<"M", "O", "D", "0", "9", "A", "1">>,
            <<"M", "O", "D", "0", "9", "A", "1">>),
     Member(<<"M", "O", "D", "1", "1", "A", "2">>,
            <<"M", "O", "D", "1", "1", "A", "2">>),
     Member(<<"M", "O", "D", "1", "3", "Q", "1">>,
            <<"M", "O", "D", "1", "3", "Q", "1">>),
     Member(<<"M", "O", "D", "1", "4", "A", "2">>,
            <<"M", "O", "D", "1", "4", "A", "2">>),
     Member(<<"M", "O", "D", "1", "5", "A", "2", "H">>,
            <<"M", "O", "D", "1", "5", "A", "2", "H">>),
     Member(<<"M", "O", "D", "1", "6", "A", "2">>,
            <<"M", "O", "D", "1", "6", "A", "2">>),
     Member(<<"M", "O", "D", "1", "7", "A", "2", "H">>,
            <<"M", "O", "D", "1", "7", "A", "2", "H">>),
     Member(<<"M", "O", "D", "1", "7", "A", "3", "H", "G", "F">>,
            <<"M", "O", "D", "1", "7", "A", "3", "H", "G", "F">>),
     Member(<<"M", "O", "D", "2", "1", "A", "2">>,
            <<"M", "O", "D", "2", "1", "A", "2">>),
     Member(<<"M", "O", "D", "4", "4", "B">>,
            <<"M", "O", "D", "4", "4", "B">>),
     Member(<<"M", "Y", "D", "0", "9", "A", "1">>,
            <<"M", "Y", "D", "0", "9", "A", "1">>),
     Member(<<"M", "Y", "D", "1", "1", "A", "2">>,
            <<"M", "Y", "D", "1", "1", "A", "2">>),
     Member(<<"M", "Y", "D", "1", "3", "Q", "1">>,
            <<"M", "Y", "D", "1", "3", "Q", "1">>),
     Member(<<"M", "Y", "D", "1", "4", "A", "2">>,
            <<"M", "Y", "D", "1", "4", "A", "2">>),
     Member(<<"M", "Y", "D", "1", "5", "A", "2", "H">>,
            <<"M", "Y", "D", "1", "5", "A", "2", "H">>),
     Member(<<"M", "Y", "D", "1", "6", "A", "2">>,
            <<"M", "Y", "D", "1", "6", "A", "2">>),
     Member(<<"M", "Y", "D", "1", "7", "A", "2", "H">>,
            <<"M", "Y", "D", "1", "7", "A", "2", "H">>),
     Member(<<"M", "Y", "D", "1", "7", "A", "3", "H", "G", "F">>,
            <<"M", "Y", "D", "1", "7", "A", "3", "H", "G", "F">>),
     Member(<<"M", "Y", "D", "2", "1", "A", "2">>,
            <<"M", "Y", "D", "2", "1", "A", "2">>),
     Member(<<"M", "C", "D", "1", "2", "Q", "1">>,
            <<"M", "C", "D", "1", "2", "Q", "1">>),
     Member(<<"M", "C", "D", "1", "2", "Q", "2">>,
            <<"M", "C", "D", "1", "2", "Q", "2">>),
     Member(<<"M", "C", "D", "1", "5", "A", "2", "H">>,
            <<"M", "C", "D", "1", "5", "A", "2", "H">>),
     Member(<<"M", "C", "D", "1", "5", "A", "3", "H">>,
            <<"M", "C", "D", "1", "5", "A", "3", "H">>),
     Member(<<"M", "C", "D", "1", "9", "A", "3">>,
            <<"M", "C", "D", "1", "9", "A", "3">>),
     Member(<<"M", "C", "D", "4", "3", "A">>,
            <<"M", "C", "D", "4", "3", "A">>),
     Member(<<"M", "C", "D", "4", "3", "A", "1">>,
            <<"M", "C", "D", "4", "3", "A", "1">>),
     Member(<<"M", "C", "D", "4", "3", "A", "4">>,
            <<"M", "C", "D", "4", "3", "A", "4">>),
     Member(<<"M", "C", "D", "6", "4", "A", "1">>,
            <<"M", "C", "D", "6", "4", "A", "1">>),
     Member(<<"V", "N", "P", "0", "9", "A", "1">>,
            <<"V", "N", "P", "0", "9", "A", "1">>),
     Member(<<"V", "N", "P", "0", "9", "H", "1">>,
            <<"V", "N", "P", "0", "9", "H", "1">>),
     Member(<<"V", "N", "P", "1", "3", "A", "1">>,
            <<"V", "N", "P", "1", "3", "A", "1">>),
     Member(<<"V", "N", "P", "1", "5", "A", "2", "H">>,
            <<"V", "N", "P", "1", "5", "A", "2", "H">>),
     Member(<<"V", "N", "P", "2", "1", "A", "2">>,
            <<"V", "N", "P", "2", "1", "A", "2">>),
     Member(<<"V", "N", "P", "2", "2", "Q", "2">>,
            <<"V", "N", "P", "2", "2", "Q", "2">>),
     Member(<<"D", "A", "Y", "M", "E", "T">>,
            <<"D", "a", "y", "m", "e", "t">>),
     Member(<<"S", "P", "L", "3", "S", "M", "P", "_", "E">>,
            <<"S", "P", "L", "3", "S", "M", "P", "_", "E">>),
     Member(<<"S", "P", "L", "4", "C", "M", "D", "L">>,
            <<"S", "P", "L", "4", "C", "M", "D", "L">>),
     Member(<<"E", "C", "O", "4", "E", "S", "I", "P", "T", "J", "P", "L">>,
            <<"E", "C", "O", "4", "E", "S", "I", "P", "T", "J", "P", "L">>),
     Member(<<"E", "C", "O", "4", "W", "U", "E">>,
            <<"E", "C", "O", "4", "W", "U", "E">>),
     Member(<<"S", "I", "F", "0", "0", "5">>,
            <<"S", "I", "F", "0", "0", "5">>),
     Member(<<"S", "I", "F", "_", "A", "N", "N">>,
            <<"S", "I", "F", "_", "A", "N", "N">>),
     Member(<<"G", "E", "D", "I", "0", "3">>,
            <<"G", "E", "D", "I", "0", "3">>),
     Member(<<"G", "E", "D", "I", "0", "4", "_", "B">>,
            <<"G", "E", "D", "I", "0", "4", "_", "B">>)}

\* str(member), as the decorator stringformat defines it: the value
stringformat(member) == member.value

\* set([str(product) for product in Products])
all_products == {stringformat(product) : product \in ProductsEnum}

\* getattr(Products, name)
getattr_Products(name) ==
    IF \E product \in ProductsEnum : product.name = name
    THEN Value(CHOOSE product \in ProductsEnum : product.name = name)
    ELSE Raise("AttributeError", "Products has no such member")

(***************************************************************************)
(* State.                                                                  *)
(***************************************************************************)
VARIABLES
    \* the arguments of the utils.py functions under check
    all_dates, start_date, end_date,
    \* what _find_closest_composite_date(all_dates, start_date) returned
    closest,
    \* the generator object made by compute_date_interval, and what it yielded
    interval_gen, interval_out,
    \* self._MAXIMUM_CONCURRENT_NUMBER
    maximum_concurrent_number,
    \* self._requests_time, self._requests_url
    requests_time, requests_url,
    \* the operation the caller made last: its name and date arguments
    call,
    \* what that operation returned or raised
    ret,
    \* the generator object of execute_many / execute_all and what it yielded
    gen, yielded,
    \* the URLs requested by that operation, in the order of the requests
    issued,
    \* what the products call of available_products_by_date returned or raised
    products,
    \* what the dates call of a composite operation returned or raised (the
    \* local all_dates, dates_intervals, all_dates_intervals, interval_dates)
    all_dates_intervals,
    \* the event loop of asyncio.run: whether a batch is running, returned or
    \* raised, and the first exception a task handed to gather
    loop,
    \* the chunks not yet started, the tasks made so far (one for each date, in
    \* the order of the dates), and the list response of _asynchronous_subset
    chunks, tasks, batch_response,
    \* history: the latest request event
    last,
    \* one upstream behaviour met on both request paths: the URL, the
    \* behaviour, and what _response and _asynchronous_response made of it
    attempt

utilVars == <<all_dates, start_date, end_date, closest, interval_gen, interval_out>>

requestVars == <<requests_time, requests_url, last>>

asyncVars == <<loop, chunks, tasks, batch_response>>

provVars == <<maximum_concurrent_number, requests_time, requests_url, call, ret,
              gen, yielded, issued, products, all_dates_intervals, loop, chunks, tasks,
              batch_response, last>>

pathVars == <<attempt>>

vars == <<utilVars, pathVars, provVars>>

NotCalled == [exc |-> "not called", why |-> "", val |-> <<>>]

\* what a call gives that ends without a return statement: None
NoneValue == [exc |-> "none", why |-> "None", val |-> None]

\* a generator object: not made yet, made and not started, suspended at a
\* yield, exhausted (StopIteration) or ended by an exception
NoGenerator == [state |-> "none", todo |-> <<>>, raised |-> NotCalled]

NoLoop == [pc |-> "idle", first_exception |-> NotCalled]

NoAttempt == [query |-> EmptyString, upstream |-> "none", sequential |-> NotCalled,
              concurrent |-> NotCalled]

NoCall == [name |-> "none", start_date |-> <<>>, end_date |-> <<>>, reference_date |-> <<>>,
           concurrent_number |-> 10]

NoEvent == [ev |-> "none", path |-> "", http |-> FALSE, ok |-> FALSE, valid |-> FALSE,
            url |-> EmptyString, date |-> ""]

(***************************************************************************)
(* Inputs.                                                                 *)
(***************************************************************************)
A0999363 == CompositeDate(0, 9, 9, 9, 3, 6, 3)
A0999364 == CompositeDate(0, 9, 9, 9, 3, 6, 4)
A0999365 == CompositeDate(0, 9, 9, 9, 3, 6, 5)
A2020330 == CompositeDate(2, 0, 2, 0, 3, 3, 0)
A2020331 == CompositeDate(2, 0, 2, 0, 3, 3, 1)
A2020335 == CompositeDate(2, 0, 2, 0, 3, 3, 5)
A2020337 == CompositeDate(2, 0, 2, 0, 3, 3, 7)
A2020340 == CompositeDate(2, 0, 2, 0, 3, 4, 0)
A2020353 == CompositeDate(2, 0, 2, 0, 3, 5, 3)
A2020363 == CompositeDate(2, 0, 2, 0, 3, 6, 3)
A2021001 == CompositeDate(2, 0, 2, 1, 0, 0, 1)

\* dates a date list may hold
UtilDates == {A0999363, A0999365, A2020330, A2020337, A2020340, A2020353, A2021001}

\* start and end dates a caller may pass
UtilPivots == {A0999364, A0999365, A2020330, A2020335, A2020340, A2020363, A2021001}

\* the lists of at most n distinct elements of S, in every order
ListsOf(S, n) ==
    UNION {{l \in [1..k -> S] : \A i, j \in 1..k : i # j => l[i] # l[j]} : k \in 0..n}

\* dates the upstream service may list, and the date arguments of a caller
ProviderDates == {A0999365, A2020330, A2020337}
ProviderPivots == {A2020330, A2020337}

\* product codes the service may list: two of the enumeration, Daymet as the
\* service spells it, and one the enumeration does not hold
MOD13Q1 == <<"M", "O", "D", "1", "3", "Q", "1">>
MYD13Q1 == <<"M", "Y", "D", "1", "3", "Q", "1">>
Daymet == <<"D", "a", "y", "m", "e", "t">>
VNP64A1 == <<"V", "N", "P", "6", "4", "A", "1">>

ServiceProducts == {MOD13Q1, MYD13Q1, Daymet, VNP64A1}

\* Date headers of responses
DateHeaders == {"Mon, 21 Mar 2022 10:06:49 GMT"}

\* the bodies the service may send with a success status
Payloads(query) ==
    IF query = DatesUrl
    THEN {[dates |-> [i \in 1..Len(l) |-> [modis_date |-> l[i]]]] :
             l \in ListsOf(ProviderDates, MaxDates)}
    ELSE IF query = ProductsUrl
    THEN {[products |-> [i \in 1..Len(l) |-> [product |-> l[i]]]] :
             l \in ListsOf(ServiceProducts, MaxProducts)}
    ELSE {[payload |-> query]}

\* the bodies that may come with an error status
ErrorBodies ==
    {Body("dict", [detail |-> <<"bad band">>], <<"{\"detail\": \"bad band\"}">>),
     Body("dict", [message |-> <<"no such product">>], <<"{\"message\": ...}">>),
     Body("str", <<"Not Found">>, <<"\"", "Not Found", "\"", "\n">>),
     Body("other", <<>>, <<"[]">>),
     Body("invalid", <<>>, <<"<html>Bad Gateway</html>">>)}

\* how one sequential attempt (requests) at a products, bands or dates URL may end
EndpointOutcomes(query) ==
    {HttpResponse(200, "OK", Body("dict", v, <<>>), d) :
        v \in Payloads(query), d \in DateHeaders}
    \cup {HttpResponse(200, "OK", Body("invalid", <<>>, <<"<html>">>), d) : d \in DateHeaders}
    \cup {HttpResponse(500, "Internal Server Error", b, d) :
             b \in ErrorBodies, d \in DateHeaders}
    \cup {HttpException("ConnectionError", TRUE), HttpException("ReadTimeout", TRUE),
          HttpException("ConnectTimeout", TRUE), HttpException("TooManyRedirects", TRUE),
          HttpException("MissingSchema", FALSE)}

\* and at a subset URL: fewer kinds of error body, batches make many requests
SubsetOutcomes(query) ==
    {HttpResponse(200, "OK", Body("dict", v, <<>>), d) :
        v \in Payloads(query), d \in DateHeaders}
    \cup {HttpResponse(500, "Internal Server Error", b, d) :
             b \in {x \in ErrorBodies : x.json = "invalid"
                                        \/ (x.json = "dict" /\ "detail" \in DOMAIN x.value)},
             d \in DateHeaders}
    \cup {HttpException("ConnectionError", TRUE), HttpException("ReadTimeout", TRUE),
          HttpException("MissingSchema", FALSE)}

Outcomes(query) ==
    IF query[1] = "subset" THEN SubsetOutcomes(query) ELSE EndpointOutcomes(query)

(***************************************************************************)
(* The utils.py functions as operations.                                   *)
(***************************************************************************)
InitProvider ==
    /\ maximum_concurrent_number = 10
    /\ requests_time = ""
    /\ requests_url = EmptyString
    /\ call = NoCall
    /\ ret = NotCalled
    /\ gen = NoGenerator
    /\ yielded = <<>>
    /\ issued = <<>>
    /\ products = NotCalled
    /\ all_dates_intervals = NotCalled
    /\ loop = NoLoop
    /\ chunks = <<>>
    /\ tasks = <<>>
    /\ batch_response = <<>>
    /\ last = NoEvent

InitUtils ==
    /\ all_dates \in ListsOf(UtilDates, MaxLen)
    /\ start_date \in UtilPivots
    /\ end_date \in UtilPivots
    /\ closest = NotCalled
    /\ interval_gen = NoGenerator
    /\ interval_out = <<>>
    /\ attempt = NoAttempt
    /\ InitProvider

FindClosest ==
    /\ closest = NotCalled
    /\ closest' = find_closest_composite_date(all_dates, start_date)
    /\ UNCHANGED <<all_dates, start_date, end_date, interval_gen, interval_out, pathVars,
                   provVars>>

\* calling a generator function runs none of its body
ComputeDateIntervalCall ==
    /\ interval_gen.state = "none"
    /\ interval_gen' = [interval_gen EXCEPT !.state = "created"]
    /\ UNCHANGED <<all_dates, start_date, end_date, closest, interval_out, pathVars, provVars>>

\* next() on a generator that holds the list todo still to yield
Resume(g, out) ==
    IF g.todo = <<>>
    THEN [gen |-> [g EXCEPT !.state = "exhausted"], out |-> out]
    ELSE [gen |-> [g EXCEPT !.state = "suspended", !.todo = Tail(g.todo)],
          out |-> Append(out, Head(g.todo))]

\* next() on the generator: the first one runs the body up to the first yield
ComputeDateIntervalNext ==
    /\ interval_gen.state \in {"created", "suspended"}
    /\ LET body == compute_date_interval(all_dates, start_date, end_date)
           started == IF interval_gen.state = "suspended" THEN interval_gen
                      ELSE [interval_gen EXCEPT !.todo = body.val]
       IN  IF interval_gen.state = "created" /\ body.exc # "none"
           THEN /\ interval_gen' = [interval_gen EXCEPT !.state = "raised", !.raised = body]
                /\ UNCHANGED interval_out
           ELSE /\ interval_gen' = Resume(started, interval_out).gen
                /\ interval_out' = Resume(started, interval_out).out
    /\ UNCHANGED <<all_dates, start_date, end_date, closest, pathVars, provVars>>

NextUtils ==
    \/ FindClosest
    \/ ComputeDateIntervalCall
    \/ ComputeDateIntervalNext

SpecUtils == InitUtils /\ [][NextUtils]_vars

(***************************************************************************)
(* The provider: configuration, single requests, accessors.                *)
(***************************************************************************)
Init ==
    /\ all_dates = <<>>
    /\ start_date = <<>>
    /\ end_date = <<>>
    /\ closest = NotCalled
    /\ interval_gen = NoGenerator
    /\ interval_out = <<>>
    /\ attempt = NoAttempt
    /\ InitProvider

\* the values a caller may try to assign to maximum_concurrent_number
ConcurrentNumbers == {0 - 1, 0, 1, 2, 3, 10, 11}

\* The caller is single-threaded: it makes its next call once it has dropped
\* what the last one gave it (a return value, an exception, a generator).
CallerFree == call = NoCall

\* a setter that stores the value and checks it afterwards
SetMaximumConcurrentNumberStoreFirst(concurrent_number) ==
    /\ CallerFree
    /\ maximum_concurrent_number' = concurrent_number
    /\ ret' = IF concurrent_number > 10
              THEN Raise("ValueError", "the maximum number of concurrent cannot be")
              ELSE NoneValue
    /\ call' = [NoCall EXCEPT !.name = "maximum_concurrent_number.setter",
                              !.concurrent_number = concurrent_number]
    /\ UNCHANGED <<utilVars, pathVars, products, all_dates_intervals, requestVars, gen, yielded, issued,
                   asyncVars>>

\* the setter of maximum_concurrent_number
SetMaximumConcurrentNumber(concurrent_number) ==
    /\ CallerFree
    /\ IF concurrent_number > 10
       THEN /\ ret' = Raise("ValueError", "the maximum number of concurrent cannot be")
            /\ UNCHANGED maximum_concurrent_number
       ELSE /\ ret' = NoneValue
            /\ maximum_concurrent_number' = concurrent_number
    /\ call' = [NoCall EXCEPT !.name = "maximum_concurrent_number.setter",
                              !.concurrent_number = concurrent_number]
    /\ UNCHANGED <<utilVars, pathVars, products, all_dates_intervals, requestVars, gen, yielded, issued,
                   asyncVars>>

\* the history after one sequential attempt at query that ended as o
Succeeded(o) == o.kind = "response" /\ ok(o) /\ o.body.json # "invalid"

SequentialEvent(query, o) ==
    [ev |-> "end", path |-> "sequential", http |-> o.kind = "response",
     ok |-> o.kind = "response" /\ ok(o), valid |-> Succeeded(o),
     url |-> query, date |-> o.date]

\* the fields and the history after _response(query) met outcome o
Attempt(query, o) ==
    /\ requests_time' = response(query, o).requests_time
    /\ requests_url' = response(query, o).requests_url
    /\ last' = SequentialEvent(query, o)

\* one blocking request by products, bands, dates or subset
Request(name, query, o) ==
    /\ CallerFree
    /\ Attempt(query, o)
    /\ ret' = response(query, o).result
    /\ call' = [NoCall EXCEPT !.name = name]
    /\ issued' = <<query>>
    /\ gen' = NoGenerator
    /\ yielded' = <<>>
    /\ UNCHANGED <<utilVars, pathVars, products, all_dates_intervals, maximum_concurrent_number,
                   asyncVars>>

Products == \E o \in Outcomes(ProductsUrl) : Request("products", ProductsUrl, o)

Bands == \E o \in Outcomes(BandsUrl) : Request("bands", BandsUrl, o)

Dates == \E o \in Outcomes(DatesUrl) : Request("dates", DatesUrl, o)

Subset ==
    \E s, e \in ProviderPivots : \E o \in Outcomes(SubsetUrl(s, e)) :
        Request("subset", SubsetUrl(s, e), o)

GetRequestHttpTime ==
    /\ CallerFree
    /\ ret' = get_request_http_time(requests_time)
    /\ call' = [NoCall EXCEPT !.name = "get_request_http_time"]
    /\ UNCHANGED <<utilVars, pathVars, products, all_dates_intervals, maximum_concurrent_number,
                   requestVars, gen, yielded, issued,
                   asyncVars>>

GetRequestUrl ==
    /\ CallerFree
    /\ ret' = get_request_url(requests_url)
    /\ call' = [NoCall EXCEPT !.name = "get_request_url"]
    /\ UNCHANGED <<utilVars, pathVars, products, all_dates_intervals, maximum_concurrent_number,
                   requestVars, gen, yielded, issued,
                   asyncVars>>

(***************************************************************************)
(* The sequential batch operations: the generators execute_many and        *)
(* execute_all.                                                            *)
(***************************************************************************)
\* calling a generator function makes the generator and runs none of its body
ExecuteManyCall ==
    \E s, e \in ProviderPivots :
        /\ CallerFree
        /\ call' = [NoCall EXCEPT !.name = "execute_many", !.start_date = s, !.end_date = e]
        /\ gen' = [NoGenerator EXCEPT !.state = "created"]
        /\ ret' = Value(<<"generator">>)
        /\ yielded' = <<>>
        /\ issued' = <<>>
        /\ UNCHANGED <<utilVars, pathVars, products, all_dates_intervals, maximum_concurrent_number,
                       requestVars, asyncVars>>

\* execute_all as a plain function that asks for the dates when it is called
\* and hands back a generator of the subset results
ExecuteAllCallEager ==
    /\ CallerFree
    /\ call' = [NoCall EXCEPT !.name = "execute_all"]
    /\ gen' = [NoGenerator EXCEPT !.state = "created"]
    /\ ret' = Value(<<"generator">>)
    /\ yielded' = <<>>
    /\ issued' = <<DatesUrl>>
    /\ \E o \in Outcomes(DatesUrl) :
          /\ Attempt(DatesUrl, o)
          /\ all_dates_intervals' = response(DatesUrl, o).result
    /\ UNCHANGED <<utilVars, pathVars, products, maximum_concurrent_number, asyncVars>>

ExecuteAllCall ==
    /\ CallerFree
    /\ call' = [NoCall EXCEPT !.name = "execute_all"]
    /\ gen' = [NoGenerator EXCEPT !.state = "created"]
    /\ ret' = Value(<<"generator">>)
    /\ yielded' = <<>>
    /\ issued' = <<>>
    /\ UNCHANGED <<utilVars, pathVars, products, all_dates_intervals, maximum_concurrent_number,
                   requestVars, asyncVars>>

\* the dates execute_many goes through, given the body of the dates answer
execute_many_dates(dates_answer, s, e) ==
    compute_date_interval(modis_dates(sorted(Get(dates_answer, "dates"))), s, e)

\* the dates execute_all goes through
execute_all_dates(dates_answer) == Value(modis_dates(Get(dates_answer, "dates")))

\* the generator ends: by exhaustion, or by the exception raised
GeneratorEnds(raised) ==
    gen' = [gen EXCEPT !.state = IF raised.exc = "none" THEN "exhausted" ELSE "raised",
                       !.todo = <<>>, !.raised = raised]

\* the loop body: one subset request for the next date, yielded unless it raises
YieldSubset(todo, issued_so_far) ==
    LET query == SubsetUrl(Head(todo), Head(todo))
    IN  \E o \in Outcomes(query) :
            /\ Attempt(query, o)
            /\ issued' = Append(issued_so_far, query)
            /\ IF response(query, o).result.exc # "none"
               THEN /\ GeneratorEnds(response(query, o).result)
                    /\ UNCHANGED yielded
               ELSE /\ gen' = [gen EXCEPT !.state = "suspended", !.todo = Tail(todo)]
                    /\ yielded' = Append(yielded, response(query, o).result.val)

\* the first next() of a body without its else branch: an error from dates
\* ends the generator and nothing is yielded
GeneratorStartWithoutElse(o) ==
    LET all == response(DatesUrl, o).result
        dates == IF call.name = "execute_many"
                 THEN execute_many_dates(all.val, call.start_date, call.end_date)
                 ELSE execute_all_dates(all.val)
    IN  /\ all_dates_intervals' = all
        /\ IF all.exc # "none"
           THEN /\ Attempt(DatesUrl, o)
                /\ issued' = <<DatesUrl>>
                /\ GeneratorEnds(all)
                /\ UNCHANGED yielded
           ELSE IF HasStatus(all.val)
           THEN /\ Attempt(DatesUrl, o)
                /\ issued' = <<DatesUrl>>
                /\ GeneratorEnds(Value(<<>>))
                /\ UNCHANGED yielded
           ELSE IF dates.exc # "none" \/ dates.val = <<>>
           THEN /\ Attempt(DatesUrl, o)
                /\ issued' = <<DatesUrl>>
                /\ GeneratorEnds(dates)
                /\ UNCHANGED yielded
           ELSE YieldSubset(dates.val, <<DatesUrl>>)

\* the first next(): the dates request, the date list, the first subset request
GeneratorStart(o) ==
    LET all == response(DatesUrl, o).result
        dates == IF call.name = "execute_many"
                 THEN execute_many_dates(all.val, call.start_date, call.end_date)
                 ELSE execute_all_dates(all.val)
    IN  /\ all_dates_intervals' = all
        /\ IF all.exc # "none"
           THEN /\ Attempt(DatesUrl, o)
                /\ issued' = <<DatesUrl>>
                /\ GeneratorEnds(all)
                /\ UNCHANGED yielded
           ELSE IF HasStatus(all.val)
           THEN /\ Attempt(DatesUrl, o)
                /\ issued' = <<DatesUrl>>
                /\ gen' = [gen EXCEPT !.state = "suspended", !.todo = <<>>]
                /\ yielded' = <<all.val>>
           ELSE IF dates.exc # "none" \/ dates.val = <<>>
           THEN /\ Attempt(DatesUrl, o)
                /\ issued' = <<DatesUrl>>
                /\ GeneratorEnds(dates)
                /\ UNCHANGED yielded
           ELSE YieldSubset(dates.val, <<DatesUrl>>)

\* next() on the generator of execute_many / execute_all
GeneratorNext ==
    /\ gen.state \in {"created", "suspended"}
    /\ IF gen.state = "created"
       THEN \E o \in Outcomes(DatesUrl) : GeneratorStart(o)
       ELSE /\ UNCHANGED all_dates_intervals
            /\ IF gen.todo = <<>>
               THEN /\ GeneratorEnds(Value(<<>>))
                    /\ UNCHANGED <<requestVars, issued, yielded>>
               ELSE YieldSubset(gen.todo, issued)
    /\ UNCHANGED <<utilVars, pathVars, products, maximum_concurrent_number, call, ret, asyncVars>>

(***************************************************************************)
(* last_product and is_present: a dates request and what is made of it.    *)
(***************************************************************************)
\* min(...) in its place: the first acquisition
last_dates_min(dates) ==
    LET time_dates == [i \in 1..Len(dates) |-> dates[i].modis_date]
    IN  time_dates[CHOOSE i \in 1..Len(time_dates) :
                      \A j \in 1..Len(time_dates) : ~StrLess(time_dates[j], time_dates[i])]

\* max([d['modis_date'] for d in ...]): the greatest string
last_dates(dates) ==
    LET time_dates == [i \in 1..Len(dates) |-> dates[i].modis_date]
    IN  time_dates[CHOOSE i \in 1..Len(time_dates) :
                      \A j \in 1..Len(time_dates) : ~StrLess(time_dates[i], time_dates[j])]

LastProduct ==
    /\ CallerFree
    /\ call' = [NoCall EXCEPT !.name = "last_product"]
    /\ \E o \in Outcomes(DatesUrl) :
          LET all == response(DatesUrl, o).result
          IN  /\ all_dates_intervals' = all
              /\ IF all.exc # "none" \/ HasStatus(all.val)
                 THEN /\ Attempt(DatesUrl, o)
                      /\ ret' = all
                      /\ issued' = <<DatesUrl>>
                 ELSE IF Get(all.val, "dates") = <<>>
                 THEN /\ Attempt(DatesUrl, o)
                      /\ ret' = Raise("ValueError", "max() arg is an empty sequence")
                      /\ issued' = <<DatesUrl>>
                 ELSE LET query == SubsetUrl(last_dates(Get(all.val, "dates")),
                                             last_dates(Get(all.val, "dates")))
                      IN  \E o2 \in Outcomes(query) :
                              /\ Attempt(query, o2)
                              /\ ret' = response(query, o2).result
                              /\ issued' = <<DatesUrl, query>>
    /\ gen' = NoGenerator
    /\ yielded' = <<>>
    /\ UNCHANGED <<utilVars, pathVars, products, maximum_concurrent_number, asyncVars>>

\* the booleans, as Python prints them
True == <<"True">>
False == <<"False">>

\* the test written without its not
is_present_flag_inverted(time_dates, reference_date) ==
    IF \E i \in 1..Len(time_dates) : time_dates[i] = reference_date THEN False ELSE True

\* flag: reference_date in time_dates
is_present_flag(time_dates, reference_date) ==
    IF \A i \in 1..Len(time_dates) : time_dates[i] # reference_date THEN False ELSE True

\* raise requests.exceptions.RequestException(message)
RequestException(message) == [exc |-> "RequestException", why |-> "detail", val |-> message]

\* the dates a caller may ask is_present about
ReferenceDates == {A2020330, A2020331}

IsPresent ==
    \E reference_date \in ReferenceDates : \E o \in Outcomes(DatesUrl) :
        LET interval_dates == response(DatesUrl, o).result
        IN  /\ CallerFree
            /\ call' = [NoCall EXCEPT !.name = "is_present",
                                      !.reference_date = reference_date]
            /\ Attempt(DatesUrl, o)
            /\ all_dates_intervals' = interval_dates
            /\ issued' = <<DatesUrl>>
            /\ ret' = IF interval_dates.exc # "none" THEN interval_dates
                      ELSE IF HasStatus(interval_dates.val)
                      THEN RequestException(Get(interval_dates.val, "detail"))
                      ELSE Value(is_present_flag(
                                    modis_dates(Get(interval_dates.val, "dates")),
                                    reference_date))
            /\ gen' = NoGenerator
            /\ yielded' = <<>>
            /\ UNCHANGED <<utilVars, pathVars, products, maximum_concurrent_number, asyncVars>>

(***************************************************************************)
(* available_products_by_date: a products request, and a dates request for *)
(* a product of the list that the enumeration Products holds.              *)
(***************************************************************************)
\* one turn of the loop for a product the enumeration holds: product_report
\* after it, product_date being what dates returned for the product and url
\* the last-request URL
report_product(product_report, product, product_date, reference_date, url) ==
    IF ~HasStatus(product_date)
    THEN IF \E i \in 1..Len(Get(product_date, "dates")) :
                 Get(Get(product_date, "dates")[i], "modis_date") = reference_date
         THEN [product_report EXCEPT !.available = Append(@, product)]
         ELSE LET add_dict == [status |-> 777, title |-> "NO DATA AVAILABLE", url |-> url,
                               detail |-> <<"No data available for day", reference_date,
                                            upper(Get(product, "product"))>>]
              IN  [product_report EXCEPT !.not_available = Append(@, add_dict @@ product)]
    ELSE LET up_dict == product_date @@ product
         IN  [product_report EXCEPT !.not_available = Append(@, up_dict)]

\* the loop with its return statement after it: every product of the list
\* is gone through, product_dates[i] being what dates returns for the i-th
RECURSIVE report_products(_, _, _, _, _)
report_products(product_report, products_lst, product_dates, reference_date, k) ==
    IF k > Len(products_lst) THEN product_report
    ELSE report_products(
            IF upper(Get(products_lst[k], "product")) \in all_products
            THEN report_product(product_report, products_lst[k], product_dates[k].val,
                                reference_date, DatesUrl)
            ELSE product_report,
            products_lst, product_dates, reference_date, k + 1)

\* available_products_by_date with the return statement after the loop
AvailableProductsByDateWholeList ==
    \E reference_date \in ReferenceDates : \E o \in Outcomes(ProductsUrl) :
        LET got == response(ProductsUrl, o).result
            product_report == [date |-> reference_date, available |-> <<>>,
                               not_available |-> <<>>]
        IN  /\ CallerFree
            /\ call' = [NoCall EXCEPT !.name = "available_products_by_date",
                                      !.reference_date = reference_date]
            /\ products' = got
            /\ gen' = NoGenerator
            /\ yielded' = <<>>
            /\ IF got.exc # "none" \/ HasStatus(got.val)
               THEN /\ Attempt(ProductsUrl, o)
                    /\ ret' = got
                    /\ issued' = <<ProductsUrl>>
                    /\ all_dates_intervals' = NotCalled
               ELSE LET products_lst == Get(got.val, "products")
                        known == {i \in 1..Len(products_lst) :
                                     upper(Get(products_lst[i], "product")) \in all_products}
                    IN  IF known = {}
                        THEN /\ Attempt(ProductsUrl, o)
                             /\ ret' = Value(product_report)
                             /\ issued' = <<ProductsUrl>>
                             /\ all_dates_intervals' = NotCalled
                        ELSE \E os \in [1..Len(products_lst) -> Outcomes(DatesUrl)] :
                                LET product_dates == [i \in 1..Len(products_lst) |->
                                                        response(DatesUrl, os[i]).result]
                                    final == CHOOSE i \in known : \A j \in known : j <= i
                                IN  /\ \A i \in known : product_dates[i].exc = "none"
                                    /\ \A i \in 1..Len(products_lst) :
                                          i \notin known => os[i] = os[final]
                                    /\ Attempt(DatesUrl, os[final])
                                    /\ issued' = <<ProductsUrl>>
                                                    \o [i \in 1..Cardinality(known) |-> DatesUrl]
                                    /\ all_dates_intervals' = product_dates[final]
                                    /\ ret' = Value(report_products(product_report, products_lst,
                                                                    product_dates, reference_date,
                                                                    1))
            /\ UNCHANGED <<utilVars, pathVars, maximum_concurrent_number, asyncVars>>

\* available_products_by_date: the return statement is in the body of the
\* loop, so the call ends in the loop's first turn; after a loop without a
\* turn the body ends without a return statement
AvailableProductsByDate ==
    \E reference_date \in ReferenceDates : \E o \in Outcomes(ProductsUrl) :
        LET got == response(ProductsUrl, o).result
            product_report == [date |-> reference_date, available |-> <<>>,
                               not_available |-> <<>>]
        IN  /\ CallerFree
            /\ call' = [NoCall EXCEPT !.name = "available_products_by_date",
                                      !.reference_date = reference_date]
            /\ products' = got
            /\ gen' = NoGenerator
            /\ yielded' = <<>>
            /\ IF got.exc # "none" \/ HasStatus(got.val)
               THEN /\ Attempt(ProductsUrl, o)
                    /\ ret' = got
                    /\ issued' = <<ProductsUrl>>
                    /\ all_dates_intervals' = NotCalled
               ELSE IF Get(got.val, "products") = <<>>
               THEN /\ Attempt(ProductsUrl, o)
                    /\ ret' = NoneValue
                    /\ issued' = <<ProductsUrl>>
                    /\ all_dates_intervals' = NotCalled
               ELSE LET product == Head(Get(got.val, "products"))
                        product_code == upper(Get(product, "product"))
                    IN  IF product_code \notin all_products
                        THEN /\ Attempt(ProductsUrl, o)
                             /\ ret' = Value(product_report)
                             /\ issued' = <<ProductsUrl>>
                             /\ all_dates_intervals' = NotCalled
                        ELSE IF getattr_Products(upper(Get(product, "product"))).exc # "none"
                        THEN /\ Attempt(ProductsUrl, o)
                             /\ ret' = getattr_Products(upper(Get(product, "product")))
                             /\ issued' = <<ProductsUrl>>
                             /\ all_dates_intervals' = NotCalled
                        ELSE \E o2 \in Outcomes(DatesUrl) :
                                LET product_date == response(DatesUrl, o2).result
                                IN  /\ Attempt(DatesUrl, o2)
                                    /\ issued' = <<ProductsUrl, DatesUrl>>
                                    /\ all_dates_intervals' = product_date
                                    /\ ret' = IF product_date.exc # "none" THEN product_date
                                              ELSE Value(report_product(
                                                      product_report, product,
                                                      product_date.val, reference_date,
                                                      response_url(DatesUrl, o2)))
            /\ UNCHANGED <<utilVars, pathVars, maximum_concurrent_number, asyncVars>>

\* the caller drops what the last call gave it: the value returned, the
\* exception, or the generator, at its end or before (generator.close())
Discard ==
    /\ call # NoCall
    /\ loop.pc # "running"
    /\ call' = NoCall
    /\ ret' = NotCalled
    /\ gen' = NoGenerator
    /\ yielded' = <<>>
    /\ issued' = <<>>
    /\ loop' = NoLoop
    /\ chunks' = <<>>
    /\ tasks' = <<>>
    /\ batch_response' = <<>>
    /\ products' = NotCalled
    /\ all_dates_intervals' = NotCalled
    /\ UNCHANGED <<utilVars, pathVars, maximum_concurrent_number, requestVars>>

(***************************************************************************)
(* The concurrent batch operations: async_execute_all, async_execute_many. *)
(* asyncio.run blocks the caller until the batch has returned or raised.   *)
(***************************************************************************)
\* how one concurrent attempt (aiohttp) at a subset URL may end
AsyncOutcomes(query) ==
    {HttpResponse(200, "OK", Body("dict", v, <<>>), d) :
        v \in Payloads(query), d \in DateHeaders}
    \cup {HttpResponse(200, "OK", Body("invalid", <<>>, <<"<html>">>), d) : d \in DateHeaders}
    \cup {HttpResponse(500, "Internal Server Error", b, d) :
             b \in {x \in ErrorBodies : x.json = "dict" /\ "detail" \in DOMAIN x.value},
             d \in DateHeaders}
    \cup {HttpException("ClientConnectorError", TRUE),
          HttpException("ClientPayloadError", TRUE),
          HttpException("InvalidURL", TRUE),
          HttpException("ServerDisconnectedError", TRUE),
          HttpException("TimeoutError", TRUE)}

\* asyncio.ensure_future for each date of a chunk
Task(date) == [url |-> SubsetUrl(date, date), state |-> "pending", result |-> NotCalled]

\* tasks put in front of the list as they are made: tasks.insert(0, task)
NewTasksInFront(chunk) == [i \in 1..Len(chunk) |-> Task(chunk[Len(chunk) + 1 - i])]

NewTasks(chunk) == [i \in 1..Len(chunk) |-> Task(chunk[i])]

\* the dates async_execute_many goes through
async_execute_many_dates(dates_answer, s, e) ==
    compute_date_interval(modis_dates(sorted(Get(dates_answer, "dates"))), s, e)

\* the dates async_execute_all goes through
async_execute_all_dates(dates_answer) == Value(modis_dates(Get(dates_answer, "dates")))

\* asyncio.run(...) ends: with the iterator returned, or with the exception
BatchEnds(result) ==
    /\ ret' = result
    /\ loop' = [loop EXCEPT !.pc = IF result.exc = "none" THEN "returned" ELSE "raised"]

\* _asynchronous_execute_all / _asynchronous_execute_many up to the first
\* await of gather: the dates request, the date list, the chunks, the tasks
\* of the first chunk
BatchStart(o, s, e) ==
    LET all == response(DatesUrl, o).result
        dates == IF call'.name = "async_execute_many"
                 THEN async_execute_many_dates(all.val, s, e)
                 ELSE async_execute_all_dates(all.val)
        split == chunks_of(dates.val, maximum_concurrent_number)
    IN  /\ Attempt(DatesUrl, o)
        /\ all_dates_intervals' = all
        /\ issued' = <<DatesUrl>>
        /\ batch_response' = <<>>
        /\ gen' = NoGenerator
        /\ yielded' = <<>>
        /\ IF all.exc # "none"
           THEN BatchEnds(all) /\ tasks' = <<>> /\ chunks' = <<>>
           ELSE IF HasStatus(all.val)
           THEN BatchEnds(Value(<<all.val>>)) /\ tasks' = <<>> /\ chunks' = <<>>
           ELSE IF dates.exc # "none"
           THEN BatchEnds(dates) /\ tasks' = <<>> /\ chunks' = <<>>
           ELSE IF split.exc # "none"
           THEN BatchEnds(split) /\ tasks' = <<>> /\ chunks' = <<>>
           ELSE IF split.val = <<>>
           THEN BatchEnds(Value(<<>>)) /\ tasks' = <<>> /\ chunks' = <<>>
           ELSE /\ ret' = NotCalled
                /\ loop' = [NoLoop EXCEPT !.pc = "running"]
                /\ tasks' = NewTasks(Head(split.val))
                /\ chunks' = Tail(split.val)

AsyncExecuteAllCall ==
    /\ CallerFree
    /\ call' = [NoCall EXCEPT !.name = "async_execute_all"]
    /\ \E o \in Outcomes(DatesUrl) : BatchStart(o, <<>>, <<>>)
    /\ UNCHANGED <<utilVars, pathVars, products, maximum_concurrent_number>>

AsyncExecuteManyCall ==
    \E s, e \in ProviderPivots :
        /\ CallerFree
        /\ call' = [NoCall EXCEPT !.name = "async_execute_many", !.start_date = s,
                                  !.end_date = e]
        /\ \E o \in Outcomes(DatesUrl) : BatchStart(o, s, e)
        /\ UNCHANGED <<utilVars, pathVars, products, maximum_concurrent_number>>

\* A task gets its first turn: _asynchronous_response blanks the last-request
\* fields and sends the request.  The loop gives the tasks their first turn in
\* the order they were made.
TaskStart(i) ==
    /\ loop.pc = "running"
    /\ tasks[i].state = "pending"
    /\ \A j \in 1..(i - 1) : tasks[j].state # "pending"
    /\ tasks' = [tasks EXCEPT ![i].state = "inflight"]
    /\ requests_time' = ""
    /\ requests_url' = EmptyString
    /\ issued' = Append(issued, tasks[i].url)
    /\ last' = [NoEvent EXCEPT !.ev = "start", !.path = "concurrent", !.url = tasks[i].url]
    /\ UNCHANGED <<utilVars, pathVars, products, all_dates_intervals, maximum_concurrent_number,
                   call, ret, gen, yielded, loop,
                   chunks, batch_response>>

\* whether the attempt can end in the task's first turn, before the loop has
\* polled the network: only a URL refused before anything is sent
EndsAtOnce(o) == o.kind = "exception" /\ IsInvalidURL(o.exc)

\* A task's attempt ends as o: _asynchronous_response records a response that
\* is ok, and returns a mapping or lets the exception go.
TaskComplete(i, o) ==
    /\ loop.pc = "running"
    /\ tasks[i].state = "inflight"
    /\ EndsAtOnce(o) \/ \A j \in 1..Len(tasks) : tasks[j].state # "pending"
    /\ LET result == asynchronous_result(tasks[i].url, o)
       IN  /\ tasks' = [tasks EXCEPT
                           ![i].state = IF result.exc = "none" THEN "done" ELSE "raised",
                           ![i].result = result]
           /\ loop' = IF result.exc # "none" /\ loop.first_exception = NotCalled
                      THEN [loop EXCEPT !.first_exception = result]
                      ELSE loop
    /\ requests_time' = IF asynchronous_records(o) THEN o.date ELSE requests_time
    /\ requests_url' = IF asynchronous_records(o) THEN tasks[i].url ELSE requests_url
    /\ last' = [ev |-> "end", path |-> "concurrent", http |-> o.kind = "response",
                ok |-> o.kind = "response" /\ async_ok(o), valid |-> Succeeded(o),
                url |-> tasks[i].url, date |-> o.date]
    /\ UNCHANGED <<utilVars, pathVars, products, all_dates_intervals, maximum_concurrent_number,
                   call, ret, gen, yielded, issued,
                   chunks, batch_response>>

\* the tasks of the chunk gather is waiting for: those made since the last extend
Gathered == (Len(batch_response) + 1)..Len(tasks)

\* a wait that returns at the first result (asyncio.wait, FIRST_COMPLETED)
GatherFirstCompleted(ts, chunk) == \E i \in chunk : ts[i].state = "done"

\* gather has every result of the chunk
GatherDone(ts, chunk) == \A i \in chunk : ts[i].state = "done"

\* the results of a chunk put in front of the list: response = view_counts + response
GatherReturnInFront ==
    /\ loop.pc = "running"
    /\ GatherDone(tasks, Gathered)
    /\ batch_response' = [k \in 1..Cardinality(Gathered) |->
                             tasks[Len(batch_response) + k].result.val] \o batch_response
    /\ IF chunks = <<>>
       THEN /\ BatchEnds(Value(batch_response'))
            /\ UNCHANGED <<tasks, chunks>>
       ELSE /\ tasks' = tasks \o NewTasks(Head(chunks))
            /\ chunks' = Tail(chunks)
            /\ UNCHANGED <<ret, loop>>
    /\ UNCHANGED <<utilVars, pathVars, products, all_dates_intervals, maximum_concurrent_number,
                   requestVars, call, gen, yielded, issued>>

\* await gather returns the results in the order of the tasks; the next chunk's
\* tasks are made, or the batch returns iter(response)
GatherReturn ==
    /\ loop.pc = "running"
    /\ GatherDone(tasks, Gathered)
    /\ batch_response' = batch_response \o [k \in 1..Cardinality(Gathered) |->
                                   tasks[Len(batch_response) + k].result.val]
    /\ IF chunks = <<>>
       THEN /\ BatchEnds(Value(batch_response'))
            /\ UNCHANGED <<tasks, chunks>>
       ELSE /\ tasks' = tasks \o NewTasks(Head(chunks))
            /\ chunks' = Tail(chunks)
            /\ UNCHANGED <<ret, loop>>
    /\ UNCHANGED <<utilVars, pathVars, products, all_dates_intervals, maximum_concurrent_number,
                   requestVars, call, gen, yielded,
                   issued>>

\* await gather raises the first exception of a task: it leaves the session
\* block and _asynchronous_execute_*, and asyncio.run cancels the tasks that
\* have not ended and raises it to the caller
GatherRaise ==
    /\ loop.pc = "running"
    /\ loop.first_exception # NotCalled
    /\ BatchEnds(loop.first_exception)
    /\ tasks' = [i \in 1..Len(tasks) |->
                   IF tasks[i].state \in {"pending", "inflight"}
                   THEN [tasks[i] EXCEPT !.state = "cancelled"]
                   ELSE tasks[i]]
    /\ UNCHANGED <<utilVars, pathVars, products, all_dates_intervals, maximum_concurrent_number,
                   requestVars, call, gen, yielded,
                   issued, chunks, batch_response>>

Next ==
    \/ \E n \in ConcurrentNumbers : SetMaximumConcurrentNumber(n)
    \/ Products
    \/ Bands
    \/ Dates
    \/ Subset
    \/ GetRequestHttpTime
    \/ GetRequestUrl
    \/ ExecuteManyCall
    \/ ExecuteAllCall
    \/ GeneratorNext
    \/ Discard
    \/ AsyncExecuteAllCall
    \/ AsyncExecuteManyCall
    \/ \E i \in 1..Len(tasks) : TaskStart(i)
    \/ \E i \in 1..Len(tasks) : \E o \in AsyncOutcomes(tasks[i].url) : TaskComplete(i, o)
    \/ GatherReturn
    \/ GatherRaise
    \/ LastProduct
    \/ IsPresent
    \/ AvailableProductsByDate

Spec == Init /\ [][Next]_vars

(***************************************************************************)
(* The two request paths met with the same upstream behaviour: _response   *)
(* through requests, _asynchronous_response through aiohttp.               *)
(***************************************************************************)
\* a request that ends without an HTTP response
Failure(what) ==
    [kind |-> "failure", status |-> 0, reason |-> "", body |-> NoBody, date |-> "",
     exc |-> what, request |-> FALSE]

TransportFailures ==
    {Failure(w) : w \in {"connection refused", "timeout", "server disconnected",
                         "invalid url", "payload cut short", "too many redirects"}}

\* what the network and the service may do to a request for query
Upstream(query) == {o \in Outcomes(query) : o.kind = "response"} \cup TransportFailures

\* the URLs of the four endpoints
Queries == {ProductsUrl, BandsUrl, DatesUrl} \cup {SubsetUrl(s, e) : s, e \in ProviderPivots}

\* self._session.get(query): the response, or the exception of requests
requests_outcome(upstream) ==
    IF upstream.kind = "response" THEN upstream
    ELSE CASE upstream.exc = "connection refused" -> HttpException("ConnectionError", TRUE)
           [] upstream.exc = "timeout" -> HttpException("ReadTimeout", TRUE)
           [] upstream.exc = "server disconnected" -> HttpException("ConnectionError", TRUE)
           [] upstream.exc = "invalid url" -> HttpException("MissingSchema", FALSE)
           [] upstream.exc = "payload cut short" ->
                  HttpException("ChunkedEncodingError", FALSE)
           [] OTHER -> HttpException("TooManyRedirects", TRUE)

\* session.get(request_url): the response, or the exception of aiohttp / asyncio
aiohttp_outcome(upstream) ==
    IF upstream.kind = "response" THEN upstream
    ELSE CASE upstream.exc = "connection refused" ->
                  HttpException("ClientConnectorError", TRUE)
           [] upstream.exc = "timeout" -> HttpException("TimeoutError", TRUE)
           [] upstream.exc = "server disconnected" ->
                  HttpException("ServerDisconnectedError", TRUE)
           [] upstream.exc = "invalid url" -> HttpException("InvalidURL", TRUE)
           [] upstream.exc = "payload cut short" -> HttpException("ClientPayloadError", TRUE)
           [] OTHER -> HttpException("ClientResponseError", TRUE)

InitPaths ==
    /\ all_dates = <<>>
    /\ start_date = <<>>
    /\ end_date = <<>>
    /\ closest = NotCalled
    /\ interval_gen = NoGenerator
    /\ interval_out = <<>>
    /\ \E q \in Queries : \E u \in Upstream(q) :
          attempt = [NoAttempt EXCEPT !.query = q, !.upstream = u]
    /\ InitProvider

\* _response(query) meets the upstream behaviour
SequentialAttempt ==
    /\ attempt.query # EmptyString
    /\ attempt.sequential = NotCalled
    /\ Attempt(attempt.query, requests_outcome(attempt.upstream))
    /\ attempt' = [attempt EXCEPT !.sequential =
                      response(attempt.query, requests_outcome(attempt.upstream)).result]
    /\ UNCHANGED <<utilVars, products, all_dates_intervals, maximum_concurrent_number, call, ret,
                   gen, yielded, issued,
                   asyncVars>>

\* _asynchronous_response(session, request_url) meets the upstream behaviour
ConcurrentAttempt ==
    /\ attempt.query # EmptyString
    /\ attempt.concurrent = NotCalled
    /\ LET o == aiohttp_outcome(attempt.upstream)
       IN  /\ attempt' = [attempt EXCEPT !.concurrent =
                             asynchronous_result(attempt.query, o)]
           /\ requests_time' = IF asynchronous_records(o) THEN o.date ELSE ""
           /\ requests_url' = IF asynchronous_records(o) THEN attempt.query ELSE EmptyString
           /\ last' = [ev |-> "end", path |-> "concurrent", http |-> o.kind = "response",
                       ok |-> o.kind = "response" /\ async_ok(o), valid |-> Succeeded(o),
                       url |-> attempt.query, date |-> o.date]
    /\ UNCHANGED <<utilVars, products, all_dates_intervals, maximum_concurrent_number, call, ret,
                   gen, yielded, issued,
                   asyncVars>>

NextPaths ==
    \/ SequentialAttempt
    \/ ConcurrentAttempt

SpecPaths == InitPaths /\ [][NextPaths]_vars

(***************************************************************************)
(* Properties of the request paths, under SpecPaths.                       *)
(***************************************************************************)
\* C11: for an HTTP response with a non-2xx status the sequential path returns
\* {status: the code, title: the reason phrase, url: the URL, detail}, detail
\* being the body's "detail" field when the body is a JSON object with that
\* key, the text of the body (with or without its quotes) when it is a bare
\* JSON string, and "something wrong" in every other case.
C11_ErrorResponseMapping ==
    LET u == attempt.upstream
        details == IF u.body.json = "dict" /\ "detail" \in DOMAIN u.body.value
                   THEN {u.body.value.detail}
                   ELSE IF u.body.json = "str" THEN {u.body.text, u.body.value}
                   ELSE {<<"something wrong">>}
    IN  (/\ attempt.sequential # NotCalled
         /\ u.kind = "response"
         /\ ~(200 <= u.status /\ u.status < 300))
            => /\ attempt.sequential.exc = "none"
               /\ attempt.sequential.val \in
                     {[status |-> u.status, title |-> u.reason, url |-> attempt.query,
                       detail |-> d] : d \in details}

\* C12: when no HTTP status could be obtained the sequential path returns an
\* error mapping with status 777, a title among "HTTP ERROR", "CONNECTION
\* ERROR", "TIMEOUT ERROR", "AMBIGUOUS ERROR", the attempted URL and the
\* detail "Exception for <url>".
C12_TransportFailureMapping ==
    (attempt.sequential # NotCalled /\ attempt.upstream.kind = "failure")
        => /\ attempt.sequential.exc = "none"
           /\ attempt.sequential.val \in
                 {[status |-> 777, title |-> t, url |-> attempt.query,
                   detail |-> <<"Exception for", attempt.query>>] :
                     t \in {"HTTP ERROR", "CONNECTION ERROR", "TIMEOUT ERROR",
                            "AMBIGUOUS ERROR"}}

C1_ConcurrencyLimit ==
    maximum_concurrent_number \in 1..10 =>
        Cardinality({i \in 1..Len(tasks) : tasks[i].state = "inflight"})
            <= maximum_concurrent_number

\* a full chunk of two requests is in flight and more dates wait in later chunks
C1_Witness ==
    /\ maximum_concurrent_number = 2
    /\ Cardinality({i \in 1..Len(tasks) : tasks[i].state = "inflight"}) = 2
    /\ chunks # <<>>

\* C2: chunk boundaries are hard barriers: no request of chunk N+1 is started
\* until every request of chunk N has completed, with a result or a normalized
\* error.  The chunk of the k-th date is ((k - 1) div maximum) + 1.
C2_ChunkBarrier ==
    \A i, j \in 1..Len(tasks) :
        (/\ maximum_concurrent_number >= 1
         /\ (i - 1) \div maximum_concurrent_number < (j - 1) \div maximum_concurrent_number
         /\ tasks[j].state # "pending")
            => /\ tasks[i].state = "done"
               /\ tasks[i].result.exc = "none"

\* the third date's request, alone in the second chunk, is in flight after the
\* two requests of the first chunk completed, one of them with an error
C2_Witness ==
    /\ maximum_concurrent_number = 2
    /\ Len(tasks) = 3
    /\ tasks[3].state = "inflight"
    /\ HasStatus(tasks[1].result.val)
    /\ ~HasStatus(tasks[2].result.val)

\* C3: a failure of one subset request of a concurrent batch becomes a
\* normalized error mapping in that request's result: no task hands an
\* exception to gather, and the batch call does not raise for it.
C3_FailureIsNormalized ==
    /\ loop.first_exception = NotCalled
    /\ \A i \in 1..Len(tasks) : tasks[i].state # "raised"

C22_ConcurrencyLimitSetter ==
    /\ maximum_concurrent_number = 10
    /\ [][IF call = NoCall /\ call'.name = "maximum_concurrent_number.setter"
          THEN IF call'.concurrent_number > 10
               THEN /\ ret'.exc = "ValueError"
                    /\ maximum_concurrent_number' = maximum_concurrent_number
               ELSE /\ ret' = NoneValue
                    /\ maximum_concurrent_number' = call'.concurrent_number
          ELSE maximum_concurrent_number' = maximum_concurrent_number]_vars

\* the assignment of 11 was refused and the limit is still the 2 set before
C22_Witness ==
    /\ call.name = "maximum_concurrent_number.setter"
    /\ call.concurrent_number = 11
    /\ ret.exc = "ValueError"
    /\ maximum_concurrent_number = 2

C28_AnyAcceptedLimitServesEveryDate ==
    LET dates == IF call.name = "async_execute_many"
                 THEN async_execute_many_dates(all_dates_intervals.val, call.start_date,
                                               call.end_date)
                 ELSE async_execute_all_dates(all_dates_intervals.val)
    IN  (/\ call.name \in {"async_execute_all", "async_execute_many"}
         /\ loop.pc \in {"returned", "raised"}
         /\ loop.first_exception = NotCalled
         /\ all_dates_intervals.exc = "none"
         /\ ~HasStatus(all_dates_intervals.val)
         /\ dates.exc = "none")
            => /\ loop.pc = "returned"
               /\ ret.exc = "none"
               /\ Len(ret.val) = Len(dates.val)

(***************************************************************************)
(* Properties of the sequential operations.                                *)
(***************************************************************************)
\* C30: in execute_many and async_execute_many called with numeric(start_date)
\* > numeric(end_date) the dates request is issued before the range is
\* checked, and no subset request is ever issued; when the dates request
\* succeeded ValueError is raised, by execute_many not at the call but when
\* the consumer asks for the first element; when it returned an error
\* mapping no exception is raised and that mapping is the only result.
C30_InvertedRangeAfterDates ==
    (/\ call.name \in {"execute_many", "async_execute_many"}
     /\ Numeric(call.start_date) > Numeric(call.end_date))
        => /\ tasks = <<>>
           /\ issued \in {<<>>, <<DatesUrl>>}
           /\ call.name = "execute_many" =>
                 /\ ret = Value(<<"generator">>)
                 /\ gen.state = "created" => (issued = <<>> /\ yielded = <<>>)
                 /\ gen.state # "created" => issued = <<DatesUrl>>
                 /\ (all_dates_intervals.exc = "none" /\ ~HasStatus(all_dates_intervals.val))
                       => /\ gen.state = "raised"
                          /\ gen.raised = Raise("ValueError",
                                                "End date is not greater than start date")
                          /\ yielded = <<>>
                 /\ (all_dates_intervals.exc = "none" /\ HasStatus(all_dates_intervals.val))
                       => /\ gen.state \in {"suspended", "exhausted"}
                          /\ gen.raised.exc \in {"not called", "none"}
                          /\ yielded = <<all_dates_intervals.val>>
           /\ call.name = "async_execute_many" =>
                 /\ issued = <<DatesUrl>>
                 /\ (all_dates_intervals.exc = "none" /\ ~HasStatus(all_dates_intervals.val))
                       => /\ loop.pc = "raised"
                          /\ ret = Raise("ValueError",
                                         "End date is not greater than start date")
                 /\ (all_dates_intervals.exc = "none" /\ HasStatus(all_dates_intervals.val))
                       => /\ loop.pc = "returned"
                          /\ ret = Value(<<all_dates_intervals.val>>)

\* the consumer's first next() on execute_many(A2020337, A2020330) has raised
\* the range error after a dates request that listed three dates
C30_Witness ==
    /\ call.name = "execute_many"
    /\ call.start_date = A2020337
    /\ call.end_date = A2020330
    /\ gen.state = "raised"
    /\ gen.raised.exc = "ValueError"
    /\ issued = <<DatesUrl>>
    /\ all_dates_intervals.exc = "none"
    /\ ~HasStatus(all_dates_intervals.val)
    /\ Len(Get(all_dates_intervals.val, "dates")) = 3

\* C4: once the dates call of execute_many / execute_all has succeeded, the
\* subset requests issued are one for each date gone through, that date as
\* startDate and endDate, every one has its result yielded in its position,
\* and the generator does not end by an exception.
C4_OneRequestPerDate ==
    (gen.state # "none" /\ Len(issued) > 1) =>
        /\ gen.state # "raised"
        /\ Len(yielded) = Len(issued) - 1
        /\ \A k \in 2..Len(issued) :
              /\ \E d \in ProviderDates : issued[k] = SubsetUrl(d, d)
              /\ \A m \in 2..Len(issued) : m # k => issued[m] # issued[k]

\* C5: products, bands, dates and subset never raise, whatever the outcome of
\* the HTTP attempt: what they return is a mapping.
C5_NeverRaises ==
    call.name \in {"products", "bands", "dates", "subset"} => ret.exc = "none"

\* C9: on both request paths the last-request time and URL are empty once an
\* attempt has begun; after an attempt that obtained an HTTP response, of any
\* status, they hold its Date header and URL; after a transport failure they
\* are empty.  Stated of an attempt that no other attempt overlaps.
C9_LastRequestFields ==
    (last.path = "sequential" \/ Cardinality(Gathered) = 1) =>
        /\ last.ev = "start" => requests_time = "" /\ requests_url = EmptyString
        /\ (last.ev = "end" /\ last.http) =>
              requests_time = last.date /\ requests_url = last.url
        /\ (last.ev = "end" /\ ~last.http) =>
              requests_time = "" /\ requests_url = EmptyString

\* C10: get_request_url and get_request_http_time answer for the most recent
\* request that received a valid response, so a blocking request changes what
\* they answer only when it received a valid response, and then to its URL
\* and Date header.
C10_LastValidRequest ==
    [][(call = NoCall /\ call'.name \in {"products", "bands", "dates", "subset"}) =>
          /\ get_request_url(requests_url') # get_request_url(requests_url) =>
                (last'.valid /\ get_request_url(requests_url') = Value(last'.url))
          /\ get_request_http_time(requests_time') # get_request_http_time(requests_time) =>
                (last'.valid /\ get_request_http_time(requests_time') = Value(last'.date))
      ]_vars

\* C14: in the four batch operations, when the dates call returns an error
\* mapping the result sequence is that one mapping and no subset request is
\* issued.
C14_DatesErrorIsTheOnlyElement ==
    (/\ call.name \in {"execute_many", "execute_all", "async_execute_many",
                       "async_execute_all"}
     /\ all_dates_intervals.exc = "none"
     /\ HasStatus(all_dates_intervals.val))
        => /\ issued = <<DatesUrl>>
           /\ tasks = <<>>
           /\ call.name \in {"execute_many", "execute_all"}
                 => /\ gen.state \in {"suspended", "exhausted"}
                    /\ gen.todo = <<>>
                    /\ yielded = <<all_dates_intervals.val>>
           /\ call.name \in {"async_execute_many", "async_execute_all"}
                 => /\ loop.pc = "returned"
                    /\ ret = Value(<<all_dates_intervals.val>>)

\* execute_many has yielded the error mapping of dates and is exhausted
C14_Witness ==
    /\ call.name = "execute_many"
    /\ gen.state = "exhausted"
    /\ all_dates_intervals.exc = "none"
    /\ HasStatus(all_dates_intervals.val)
    /\ yielded = <<all_dates_intervals.val>>

\* C15: execute_many / execute_all are consumer-paced: no request is issued
\* before the consumer asks for the first element, and the subset request for
\* an element is issued only once the consumer has received every element
\* before it and asked for the next: while the generator is suspended no
\* request is ahead of what was yielded, and never more than one.
C15_ConsumerPaced ==
    gen.state # "none" =>
        /\ gen.state = "created" => (issued = <<>> /\ all_dates_intervals = NotCalled)
        /\ (gen.state \in {"suspended", "exhausted"} /\ issued # <<>>)
              => Len(issued) - 1 <= Len(yielded)
        /\ issued # <<>> => Len(issued) - 1 <= Len(yielded) + 1

\* the consumer holds two elements and a third date waits for its next()
C15_Witness ==
    /\ gen.state = "suspended"
    /\ Len(yielded) = 2
    /\ Len(issued) = 3
    /\ gen.todo # <<>>

\* C16: the result of a concurrent batch preserves chunk sequence: every
\* result of a request of an earlier chunk precedes every result of a request
\* of a later chunk, whatever the order the requests completed in.
C16_ChunkOrder ==
    LET UrlOf(m) == IF HasStatus(m) THEN m.url ELSE m.payload
    IN  (loop.pc = "returned" /\ tasks # <<>> /\ maximum_concurrent_number >= 1) =>
          /\ Len(ret.val) = Len(tasks)
          /\ \A p, q \in 1..Len(ret.val) : \A i, j \in 1..Len(tasks) :
                (/\ UrlOf(ret.val[p]) = tasks[i].url
                 /\ UrlOf(ret.val[q]) = tasks[j].url
                 /\ (i - 1) \div maximum_concurrent_number
                       < (j - 1) \div maximum_concurrent_number)
                    => p < q

\* a batch of three dates in chunks of two has returned
C16_Witness ==
    /\ loop.pc = "returned"
    /\ maximum_concurrent_number = 2
    /\ Len(tasks) = 3
    /\ Len(ret.val) = 3

\* C18: for every upstream date set, in whatever order, execute_all goes
\* through the dates execute_many goes through when called with the smallest
\* and the largest date of the set, in the same order: the subset requests of
\* an execute_all / async_execute_all run are those, one after the other.
C18_AllIsManyOverWholeRange ==
    (/\ call.name \in {"execute_all", "async_execute_all"}
     /\ all_dates_intervals.exc = "none"
     /\ ~HasStatus(all_dates_intervals.val)
     /\ Get(all_dates_intervals.val, "dates") # <<>>)
        => LET D == modis_dates(Get(all_dates_intervals.val, "dates"))
               smallest == CHOOSE d \in {D[k] : k \in 1..Len(D)} :
                              \A k \in 1..Len(D) : Numeric(d) <= Numeric(D[k])
               largest == CHOOSE d \in {D[k] : k \in 1..Len(D)} :
                             \A k \in 1..Len(D) : Numeric(d) >= Numeric(D[k])
               many == execute_many_dates(all_dates_intervals.val, smallest, largest)
           IN  /\ many.exc = "none"
               /\ Len(issued) - 1 <= Len(many.val)
               /\ \A k \in 2..Len(issued) :
                     issued[k] = SubsetUrl(many.val[k - 1], many.val[k - 1])

C20_IsPresent ==
    (call.name = "is_present" /\ all_dates_intervals.exc = "none") =>
        /\ issued = <<DatesUrl>>
        /\ IF HasStatus(all_dates_intervals.val)
           THEN /\ ret.exc = "RequestException"
                /\ ret.val = all_dates_intervals.val.detail
           ELSE LET D == modis_dates(Get(all_dates_intervals.val, "dates"))
                IN  /\ ret.exc = "none"
                    /\ ret.val = True <=> call.reference_date \in {D[k] : k \in 1..Len(D)}
                    /\ ret.val = False <=> call.reference_date \notin {D[k] : k \in 1..Len(D)}

\* is_present found the reference date among three dates
C20_Witness ==
    /\ call.name = "is_present"
    /\ all_dates_intervals.exc = "none"
    /\ ~HasStatus(all_dates_intervals.val)
    /\ Len(Get(all_dates_intervals.val, "dates")) = 3
    /\ call.reference_date = A2020330
    /\ ret = Value(True)

(***************************************************************************)
(* Properties of available_products_by_date.                               *)
(***************************************************************************)
\* C21: when its products call succeeds, for any product list, the empty one
\* included, available_products_by_date returns a mapping {date, available,
\* not_available} in which every product that is in the Products vocabulary
\* and in the returned list appears in exactly one of the two lists: in
\* available if and only if reference_date is in the product's date set,
\* otherwise in not_available with an error (status 777, or the error of
\* dates).  Stated of the calls in which no dates request has raised.
C21_EveryKnownProductIsReported ==
    LET products_lst == Get(products.val, "products")
        listed == {Get(products_lst[i], "product") : i \in 1..Len(products_lst)}
        In(list, code) == \E i \in 1..Len(list) : list[i].product = code
        Entry(list, code) == list[CHOOSE i \in 1..Len(list) : list[i].product = code]
        asked == Get(Head(products_lst), "product")
        dates == modis_dates(Get(all_dates_intervals.val, "dates"))
    IN  (/\ call.name = "available_products_by_date"
         /\ products.exc = "none"
         /\ ~HasStatus(products.val)
         /\ all_dates_intervals.exc \in {"not called", "none"})
            => /\ ret.exc = "none"
               /\ ret.why # "None"
               /\ ret.val.date = call.reference_date
               /\ \A code \in listed \cap all_products :
                     In(ret.val.available, code) # In(ret.val.not_available, code)
               /\ \A code \in listed \cap all_products :
                     In(ret.val.not_available, code)
                        => HasStatus(Entry(ret.val.not_available, code))
               /\ (all_dates_intervals.exc = "none" /\ ~HasStatus(all_dates_intervals.val))
                     => (In(ret.val.available, asked)
                            <=> \E i \in 1..Len(dates) : dates[i] = call.reference_date)

C6_IntervalIsSlice ==
    LET D == all_dates
        dist(k, p) == abs(Numeric(D[k]) - Numeric(p))
        nearest(p) == CHOOSE k \in 1..Len(D) :
                         /\ \A m \in 1..Len(D) : dist(k, p) <= dist(m, p)
                         /\ \A m \in 1..(k - 1) : dist(m, p) > dist(k, p)
    IN  (/\ interval_gen.state \in {"raised", "exhausted"}
         /\ D # <<>>
         /\ \A k \in 1..(Len(D) - 1) : Numeric(D[k]) < Numeric(D[k + 1])
         /\ Numeric(start_date) <= Numeric(end_date))
            => /\ interval_gen.state = "exhausted"
               /\ interval_out = SubSeq(D, nearest(start_date), nearest(end_date))

\* C7: compute_date_interval(D, s, e) fails with ValueError whenever
\* numeric(s) > numeric(e), for every D: the generator, once run, has raised
\* the range error and yielded nothing.
C7_InvertedRangeRaises ==
    (interval_gen.state \notin {"none", "created"} /\ Numeric(start_date) > Numeric(end_date))
        => /\ interval_gen.state = "raised"
           /\ interval_gen.raised.exc = "ValueError"
           /\ interval_gen.raised.why = "End date is not greater than start date"
           /\ interval_out = <<>>

\* the range error on a list in which start and end snap to the same date
C7_Witness ==
    /\ interval_gen.state = "raised"
    /\ Numeric(start_date) > Numeric(end_date)
    /\ all_dates # <<>>
    /\ find_closest_composite_date(all_dates, start_date)
          = find_closest_composite_date(all_dates, end_date)
    /\ find_closest_composite_date(all_dates, start_date).val
          \in {all_dates[k] : k \in 1..Len(all_dates)}

\* C8: for a non-empty list D of composite dates and a pivot p,
\* _find_closest_composite_date(D, p) returns an element of D, and p when p
\* is in D.
C8_ClosestIsElement ==
    (closest # NotCalled /\ all_dates # <<>>) =>
        /\ closest.exc = "none"
        /\ closest.val \in {all_dates[k] : k \in 1..Len(all_dates)}
        /\ start_date \in {all_dates[k] : k \in 1..Len(all_dates)} => closest.val = start_date


\* C23: compute_date_interval, and execute_many / async_execute_many through
\* it, raises ValueError whenever start_date >= end_date, so also when
\* start_date equals end_date: the generator, once run, has raised the range
\* error and yielded nothing.
C23_EqualDatesRaise ==
    (/\ interval_gen.state \notin {"none", "created"}
     /\ Numeric(start_date) >= Numeric(end_date))
        => /\ interval_gen.state = "raised"
           /\ interval_gen.raised.exc = "ValueError"
           /\ interval_out = <<>>

\* C24: when two dates of D are equally close, numerically, to the pivot,
\* _find_closest_composite_date returns the one of them that comes first in D
\* (for D = [A2020330, A2020340] and the pivot A2020335: A2020330).
C24_TieGoesToTheFirst ==
    LET D == all_dates
        dist(k) == abs(Numeric(D[k]) - Numeric(start_date))
        least(k) == \A m \in 1..Len(D) : dist(k) <= dist(m)
    IN  (/\ closest # NotCalled
         /\ \E i, j \in 1..Len(D) : i # j /\ least(i) /\ least(j))
            => /\ closest.exc = "none"
               /\ \E i \in 1..Len(D) :
                     /\ least(i)
                     /\ \A m \in 1..(i - 1) : ~least(m)
                     /\ closest.val = D[i]

\* C26: when there is no acquisition on start_date the range begins at the
\* acquisition nearest in time to it, the one with the fewest calendar days
\* of distance, also when that one lies in the adjacent year (the pivot
\* A2020363 with the acquisitions A2020353 and A2021001 snaps to A2021001);
\* and so for end_date and the end of the range.  Stated of ascending lists
\* of dates of the years 1000 and later.
C26_NearestInCalendarDays ==
    LET D == all_dates
        year(d) == Numeric(d) \div 1000
        leaps(y) == (y \div 4) - (y \div 100) + (y \div 400)
        day(d) == 365 * year(d) + leaps(year(d) - 1) + (Numeric(d) % 1000)
        nearest(d, p) == \A m \in 1..Len(D) : abs(day(d) - day(p)) <= abs(day(D[m]) - day(p))
    IN  (/\ interval_gen.state = "exhausted"
         /\ D # <<>>
         /\ Numeric(start_date) >= 1000000
         /\ \A k \in 1..Len(D) : Numeric(D[k]) >= 1000000
         /\ \A k \in 1..(Len(D) - 1) : Numeric(D[k]) < Numeric(D[k + 1]))
            => /\ interval_out # <<>>
               /\ nearest(interval_out[1], start_date)
               /\ nearest(interval_out[Len(interval_out)], end_date)

\* C29: for a non-empty ascending list D and numeric(s) <= numeric(e) the
\* position of the date nearest to s is at most that of the date nearest to
\* e, so compute_date_interval(D, s, e) yields at least one date, also when
\* no date of D lies between s and e, and every date it yields is in D.
C29_IntervalIsNotEmpty ==
    LET D == all_dates
    IN  (/\ interval_gen.state \in {"raised", "exhausted"}
         /\ D # <<>>
         /\ \A k \in 1..(Len(D) - 1) : Numeric(D[k]) < Numeric(D[k + 1])
         /\ Numeric(start_date) <= Numeric(end_date))
            => /\ interval_gen.state = "exhausted"
               /\ Index(D, find_closest_composite_date(D, start_date).val)
                     <= Index(D, find_closest_composite_date(D, end_date).val)
               /\ Len(interval_out) >= 1
               /\ \A k \in 1..Len(interval_out) : interval_out[k] \in {D[m] : m \in 1..Len(D)}

====
